---------------------------- MODULE Spec2Model ----------------------------
(***************************************************************************)
(* Model of the CREator backend: the hardened server                       *)
(* (server.production.ts) and the development server (server.ts).          *)
(*                                                                         *)
(* Text (request strings, the content of the .env file) is a sequence of  *)
(* one-character strings, so that the regular expressions, trim(),         *)
(* includes() and replace() of the handlers are computed character by      *)
(* character.  Every await of a handler is a separate step, so handlers    *)
(* and the startup initializer interleave as they do on the event loop.    *)
(***************************************************************************)
EXTENDS Naturals, Sequences, FiniteSets

VARIABLES
    variant,    \* which server runs: "production" (server.production.ts) or "dev" (server.ts)
    fsMode,     \* the orchestrator directory: "ok", "readonly" (writes fail), "noaccess" (reads and writes fail)
    envFile,    \* content of CRE_ENV_PATH, or Missing
    workFile,   \* content of the file POST /api/write-file targets, or Missing
    initPc,     \* position of initializeEnvFile()
    req,        \* req[i]: the handler of request i (its position and locals)
    response,   \* the response sent by the step just taken (<<r>>), or << >>
    env0,       \* observer: content of CRE_ENV_PATH when the process started
    opens       \* observer: number of truncating opens of CRE_ENV_PATH so far

vars == <<variant, fsMode, envFile, workFile, initPc, req, response, env0, opens>>

-----------------------------------------------------------------------------
(* Bounds *)

\* number of requests the server receives in one behaviour
MaxRequests == 2

-----------------------------------------------------------------------------
(* Text *)

Rep(c, n) == [i \in 1..n |-> c]

KEY_ASSIGN == <<"C","R","E","_","E","T","H","_","P","R","I","V","A","T","E","_","K","E","Y","=">>

TARGET_ASSIGN == <<"C","R","E","_","T","A","R","G","E","T","=">>

STAGING == <<"s","t","a","g","i","n","g","-","s","e","t","t","i","n","g","s">>

ENV_HEADER == <<"#"," ","C","R","E"," ","C","o","n","f","i","g","u","r","a","t","i","o","n","\n","#"," ","G","e","n","e","r","a","t","e","d"," ","a","u","t","o","m","a","t","i","c","a","l","l","y"," ","b","y"," ","C","R","E","a","t","o","r"," ","B","a","c","k","e","n","d","\n","#"," ","P","r","i","v","a","t","e"," ","k","e","y"," ","i","s"," ","o","p","t","i","o","n","a","l"," ","-"," ","s","o","m","e"," ","s","i","m","u","l","a","t","i","o","n","s"," ","w","o","r","k"," ","w","i","t","h","o","u","t"," ","i","t","\n">>

YOUR_ == <<"y","o","u","r","_">>

PLACEHOLDER == <<"p","l","a","c","e","h","o","l","d","e","r">>

YOUR_ETH == <<"y","o","u","r","-","e","t","h","-","p","r","i","v","a","t","e","-","k","e","y">>

NL == <<"\n">>

\* the number of hexadecimal characters of a private key
KeyHexLen == 64

HexChars == {"0","1","2","3","4","5","6","7","8","9",
             "a","b","c","d","e","f","A","B","C","D","E","F"}

\* the characters String.prototype.trim() removes, among those of the model's alphabet
IsWhite(c) == c \in {" ", "\t", "\n", "\r"}

\* the characters the regular expression `.` does not match
IsLineTerminator(c) == c \in {"\n", "\r"}

SetMin(S) == CHOOSE x \in S : \A y \in S : x <= y

SetMax(S) == CHOOSE x \in S : \A y \in S : x >= y

\* s.trim()
Trim(s) ==
    LET keep == {i \in 1..Len(s) : ~IsWhite(s[i])}
    IN  IF keep = {} THEN << >> ELSE SubSeq(s, SetMin(keep), SetMax(keep))

StartsAt(s, p, i) ==
    /\ i >= 1
    /\ i + Len(p) - 1 <= Len(s)
    /\ \A j \in 1..Len(p) : s[i + j - 1] = p[j]

\* s.includes(p)
Includes(s, p) == \E i \in 1..(Len(s) + 1) : StartsAt(s, p, i)

\* the index after the last character of the line that holds index i
\* (i itself when s[i] is a line terminator or lies past the end)
LineEnd(s, i) ==
    LET stops == {j \in i..Len(s) : IsLineTerminator(s[j])}
    IN  IF stops = {} THEN Len(s) + 1 ELSE SetMin(stops)

\* privateKey.replace(/^0x/, '')
StripHexPrefix(s) == IF StartsAt(s, <<"0","x">>, 1) THEN SubSeq(s, 3, Len(s)) ELSE s

\* privateKey.replace(/^0x/, '').trim()
CleanKey(s) == Trim(StripHexPrefix(s))

\* /^[a-fA-F0-9]{64}$/.test(cleanKey)
IsKeyFormat(s) == Len(s) = KeyHexLen /\ \A i \in 1..Len(s) : s[i] \in HexChars

\* envContent.match(/CRE_ETH_PRIVATE_KEY=(.+)/): the start indexes of the
\* matches, each needing one character that is not a line terminator
KeyPlusStarts(s) ==
    {i \in 1..Len(s) : /\ StartsAt(s, KEY_ASSIGN, i)
                       /\ i + Len(KEY_ASSIGN) <= Len(s)
                       /\ ~IsLineTerminator(s[i + Len(KEY_ASSIGN)])}

NoMatch == <<"<null>">>

\* the capture group of the leftmost match, or NoMatch
MatchKeyValue(s) ==
    IF KeyPlusStarts(s) = {} THEN NoMatch
    ELSE LET i == SetMin(KeyPlusStarts(s)) + Len(KEY_ASSIGN)
         IN  SubSeq(s, i, LineEnd(s, i) - 1)

\* /CRE_ETH_PRIVATE_KEY=.*/ : the start indexes of the matches
KeyStarStarts(s) == {i \in 1..Len(s) : StartsAt(s, KEY_ASSIGN, i)}

\* envContent.replace(privateKeyRegex, `CRE_ETH_PRIVATE_KEY=${privateKey}`)
\* (the replacement holds no `$`, see KeyInputs)
ReplaceKeyLine(s, key) ==
    LET i == SetMin(KeyStarStarts(s))
        e == LineEnd(s, i + Len(KEY_ASSIGN))
    IN  SubSeq(s, 1, i - 1) \o KEY_ASSIGN \o key \o SubSeq(s, e, Len(s))


-----------------------------------------------------------------------------
(* Configuration: the process environment sets none of the overrides *)

NODE_ENV == "development"

ORCHESTRATOR_PATH == "/cre-orchestrator"

CRE_ENV_PATH == "/cre-orchestrator/.env"

AVAILABLE_ROUTES == <<"/health", "/api/info", "/api/write-file", "/api/simulate",
                      "/api/get-env-config", "/api/set-env-config">>

-----------------------------------------------------------------------------
(* Values *)

Missing == <<"<absent>">>

\* a JSON value of a request body: absent, a string, or the number 5
Undefined == [t |-> "undefined", v |-> << >>]

Str(s) == [t |-> "string", v |-> s]

Num5 == [t |-> "number", v |-> <<"5">>]

\* !x is false
Truthy(x) == x.t = "number" \/ (x.t = "string" /\ x.v # << >>)

Valid1 == Rep("a", KeyHexLen - 1) \o <<"F">>

Valid2 == Rep("9", KeyHexLen)

\* the privateKey values requests carry; none holds a `$`
KeyInputs ==
    { Undefined,
      Str(<< >>),
      Str(Valid1),
      Str(<<"0","x">> \o Valid2 \o <<" ">>),
      Str(<<" ","0","x">> \o Valid1),
      Str(Rep("a", KeyHexLen - 1)),
      Str(Rep("a", KeyHexLen - 1) \o <<"g">>),
      Num5 }

\* the orchestratorPath values requests carry ("" is an absent or empty one)
PathInputs == {"", "/cre-orchestrator", "/tmp/elsewhere"}

\* the path values of POST /api/write-file ("" is an absent one); none names the .env file
FilePathInputs == {"", "workflows/main.ts"}

\* the content values of POST /api/write-file
ContentInputs == {Undefined, Str(<<"x">>)}

\* the contents CRE_ENV_PATH may hold when the process starts
PlaceholderEnv == KEY_ASSIGN \o YOUR_ETH \o NL \o TARGET_ASSIGN \o STAGING \o NL

OtherLinesEnv == <<"A","=","1","\n">> \o KEY_ASSIGN \o <<"a","b">> \o NL \o <<"B","=","2","\n">>

NoKeyEnv == <<"A","=","1","\n">>

EmptyThenSetEnv == KEY_ASSIGN \o NL \o KEY_ASSIGN \o <<"a","b">> \o NL

InitFiles == {Missing, PlaceholderEnv, OtherLinesEnv, NoKeyEnv, EmptyThenSetEnv}

\* what the external CLI run can end as
ExecOutcomes ==
    [kind : {"exit0"}, stdout : {<<"o">>}, stderr : {<< >>, <<"e">>}, message : {<< >>}]
    \cup [kind : {"nonzero", "timeout", "maxbuffer"}, stdout : {<<"o">>}, stderr : {<<"e">>},
          message : {<<"m">>}]
    \cup [kind : {"spawn"}, stdout : {<< >>}, stderr : {<< >>}, message : {<<"m">>}]

Requests == 1..MaxRequests

Idle == [pc |-> "idle", route |-> "", key |-> Undefined, val |-> << >>, opath |-> "",
         data |-> << >>, rival |-> FALSE]

Done == [Idle EXCEPT !.pc = "done"]

Resp(route, key, opath, event, status, body) ==
    << [route |-> route, key |-> key, opath |-> opath, event |-> event,
        status |-> status, body |-> body, rival |-> FALSE] >>

-----------------------------------------------------------------------------
(* The file system *)

\* fs.readFile(CRE_ENV_PATH) and fs.access(CRE_ENV_PATH) resolve
CanRead == fsMode # "noaccess" /\ envFile # Missing

\* fs.writeFile and fs.mkdir under the orchestrator directory resolve
CanWrite == fsMode = "ok"

\* what a write of data at offset 0 leaves in a file that holds cur:
\* fs.writeFile opens with truncation, then writes through its own descriptor
Overwrite(cur, data) ==
    IF cur # Missing /\ Len(cur) > Len(data)
    THEN data \o SubSeq(cur, Len(data) + 1, Len(cur))
    ELSE data

-----------------------------------------------------------------------------
(* Initial state *)

Init ==
    /\ variant \in {"production", "dev"}
    /\ fsMode \in {"ok", "readonly", "noaccess"}
    /\ envFile \in InitFiles
    /\ env0 = envFile
    /\ workFile = Missing
    /\ initPc = IF variant = "production" THEN "access" ELSE "done"
    /\ req = [i \in Requests |-> Idle]
    /\ response = << >>
    /\ opens = 0

\* request i can be received: the earlier ones have been
Fresh(i) == req[i].pc = "idle" /\ \A j \in 1..(i - 1) : req[j].pc # "idle"

Finish(i, r) ==
    /\ req' = [req EXCEPT ![i] = Done]
    /\ response' = r

-----------------------------------------------------------------------------
(* initializeEnvFile *)

\* process.env.CRE_ETH_PRIVATE_KEY || '' and process.env.CRE_TARGET || 'staging-settings'
DefaultEnvContent == ENV_HEADER \o KEY_ASSIGN \o << >> \o NL \o TARGET_ASSIGN \o STAGING \o NL

\* await fs.access(CRE_ENV_PATH)
InitAccess ==
    /\ initPc = "access"
    /\ initPc' = IF CanRead THEN "done" ELSE "open"
    /\ response' = << >>
    /\ UNCHANGED <<variant, fsMode, envFile, workFile, req, env0, opens>>

\* fs.writeFile(CRE_ENV_PATH, envContent): the open, which creates or truncates
InitOpen ==
    /\ initPc = "open"
    /\ IF CanWrite
       THEN envFile' = << >> /\ opens' = opens + 1 /\ initPc' = "write"
       ELSE UNCHANGED <<envFile, opens>> /\ initPc' = "done"
    /\ response' = << >>
    /\ UNCHANGED <<variant, fsMode, workFile, req, env0>>

\* fs.writeFile(CRE_ENV_PATH, envContent): the write
InitWrite ==
    /\ initPc = "write"
    /\ envFile' = Overwrite(envFile, DefaultEnvContent)
    /\ initPc' = "done"
    /\ response' = << >>
    /\ UNCHANGED <<variant, fsMode, workFile, req, env0, opens>>

-----------------------------------------------------------------------------
(* Routes that answer at once *)

HealthBody ==
    IF variant = "production"
    THEN [status |-> "ok", environment |-> NODE_ENV,
          message |-> "Backend is running in development mode.", timestamp |-> "now"]
    ELSE [status |-> "ok"]

Health(i) ==
    /\ Fresh(i)
    /\ Finish(i, Resp("health", Undefined, "", "ok", 200, HealthBody))
    /\ UNCHANGED <<variant, fsMode, envFile, workFile, initPc, env0, opens>>

InfoBody ==
    [name |-> "CREator Backend API", version |-> "1.0.0", environment |-> NODE_ENV,
     orchestratorPath |-> ORCHESTRATOR_PATH, availableEndpoints |-> AVAILABLE_ROUTES,
     availableRoutes |-> AVAILABLE_ROUTES]

Info(i) ==
    /\ variant = "production"
    /\ Fresh(i)
    /\ Finish(i, Resp("info", Undefined, "", "ok", 200, InfoBody))
    /\ UNCHANGED <<variant, fsMode, envFile, workFile, initPc, env0, opens>>

\* faulty variant of NotFoundBody: the 404 body names no error
NotFoundBodyNoError == [message |-> "Route does not exist", availableRoutes |-> AVAILABLE_ROUTES]

NotFoundBody ==
    [error |-> "Not found", message |-> "Route does not exist", availableRoutes |-> AVAILABLE_ROUTES]

\* a request no route matches (server.ts registers no fallback of its own)
NotFound(i) ==
    /\ variant = "production"
    /\ Fresh(i)
    /\ Finish(i, Resp("404", Undefined, "", "unmatched", 404, NotFoundBody))
    /\ UNCHANGED <<variant, fsMode, envFile, workFile, initPc, env0, opens>>

ErrorHandlerBody == [error |-> "Internal server error", message |-> "parse error"]

\* a request whose body express.json() cannot parse: the error reaches the
\* error handler (server.ts registers none of its own)
ErrorHandler(i, route) ==
    /\ variant = "production"
    /\ Fresh(i)
    /\ Finish(i, Resp(route, Undefined, "", "bad-json", 500, ErrorHandlerBody))
    /\ UNCHANGED <<variant, fsMode, envFile, workFile, initPc, env0, opens>>

-----------------------------------------------------------------------------
(* POST /api/write-file *)

\* the validation and, for a valid body, the start of fs.mkdir
WriteFileRecv(i, path, content) ==
    /\ Fresh(i)
    /\ IF path = "" \/ content.t = "undefined"
       THEN Finish(i, Resp("write-file", Undefined, "", "validation", 400,
                           [error |-> "Missing path or content"]))
       ELSE /\ req' = [req EXCEPT ![i] = [Idle EXCEPT !.pc = "wf_mkdir", !.route = "write-file",
                                                      !.data = content.v]]
            /\ response' = << >>
    /\ UNCHANGED <<variant, fsMode, envFile, workFile, initPc, env0, opens>>

WriteFileFailureBody == [error |-> "Failed to write file", message |-> "io error"]

\* await fs.mkdir(dir, { recursive: true })
WriteFileMkdir(i) ==
    /\ req[i].pc = "wf_mkdir"
    /\ IF fsMode # "noaccess"
       THEN /\ req' = [req EXCEPT ![i].pc = "wf_write"]
            /\ response' = << >>
       ELSE Finish(i, Resp("write-file", Undefined, "", "io-error", 500, WriteFileFailureBody))
    /\ UNCHANGED <<variant, fsMode, envFile, workFile, initPc, env0, opens>>

\* await fs.writeFile(filePath, content, 'utf-8') and the answer
WriteFileWrite(i) ==
    /\ req[i].pc = "wf_write"
    /\ IF CanWrite
       THEN /\ workFile' = req[i].data
            /\ Finish(i, Resp("write-file", Undefined, "", "ok", 200,
                              [success |-> TRUE, message |-> "File written"]))
       ELSE /\ UNCHANGED workFile
            /\ Finish(i, Resp("write-file", Undefined, "", "io-error", 500, WriteFileFailureBody))
    /\ UNCHANGED <<variant, fsMode, envFile, initPc, env0, opens>>

-----------------------------------------------------------------------------
(* POST /api/simulate *)

SIMULATE_ARGS == "cre workflow simulate workflows --target=staging-settings"

\* faulty variant of SimulateCommandProduction: the directory is taken from the
\* request body, as server.ts does
SimulateCommandFromBody(orchestratorPath) ==
    <<"cd", IF orchestratorPath = "" THEN ORCHESTRATOR_PATH ELSE orchestratorPath, "&&",
      SIMULATE_ARGS>>

\* server.production.ts: `cd "${ORCHESTRATOR_PATH}" && cre workflow simulate ...`
SimulateCommandProduction(orchestratorPath) ==
    <<"cd", ORCHESTRATOR_PATH, "&&", SIMULATE_ARGS>>

\* server.ts: `cd "${orchestratorPath}"; cre workflow simulate ...`
SimulateCommandDev(orchestratorPath) ==
    <<"cd", orchestratorPath, ";", SIMULATE_ARGS>>

\* the command line handed to exec; exec gets no cwd option, so the command's
\* cd decides the directory the CLI runs in
SimulateCommand(orchestratorPath) ==
    IF variant = "production"
    THEN SimulateCommandProduction(orchestratorPath)
    ELSE SimulateCommandDev(orchestratorPath)

\* the handler up to await execAsync(command, ...)
SimulateRecv(i, orchestratorPath) ==
    /\ Fresh(i)
    /\ IF variant = "dev" /\ orchestratorPath = ""
       THEN Finish(i, Resp("simulate", Undefined, orchestratorPath, "validation", 400,
                           [error |-> "Missing orchestratorPath"]))
       ELSE /\ req' = [req EXCEPT ![i] = [Idle EXCEPT !.pc = "exec", !.route = "simulate",
                                                      !.opath = orchestratorPath,
                                                      !.data = SimulateCommand(orchestratorPath)]]
            /\ response' = << >>
    /\ UNCHANGED <<variant, fsMode, envFile, workFile, initPc, env0, opens>>

\* stdout + (stderr ? '\n' + stderr : '')
SimulateSuccessOutput(o) == o.stdout \o (IF o.stderr # << >> THEN NL \o o.stderr ELSE << >>)

\* (execError.stdout || '') + '\n' + (execError.stderr || '') + '\n' + (execError.message || '')
SimulateFailureOutput(o) == o.stdout \o NL \o o.stderr \o NL \o o.message

\* what the handler answers when execAsync settles as o: it resolves only on exit code 0
SimulateBody(o) ==
    IF o.kind = "exit0"
    THEN [success |-> TRUE, output |-> SimulateSuccessOutput(o)]
    ELSE [success |-> FALSE, output |-> SimulateFailureOutput(o)]

\* execAsync settles and the handler answers
SimulateDone(i, o) ==
    /\ req[i].pc = "exec"
    /\ Finish(i, Resp("simulate", Undefined, req[i].opath, o.kind, 200, SimulateBody(o)))
    /\ UNCHANGED <<variant, fsMode, envFile, workFile, initPc, env0, opens>>

-----------------------------------------------------------------------------
(* GET /api/get-env-config *)

\* server.production.ts: keyMatch && keyMatch[1].trim() !== '' &&
\* !keyMatch[1].includes('your_') && !keyMatch[1].includes('placeholder')
HasValidKeyProduction(content) ==
    LET m == MatchKeyValue(content)
    IN  /\ m # NoMatch
        /\ Trim(m) # << >>
        /\ ~Includes(m, YOUR_)
        /\ ~Includes(m, PLACEHOLDER)

\* server.ts: privateKeyMatch && privateKeyMatch[1].trim() !== '' &&
\* privateKeyMatch[1].trim() !== 'your-eth-private-key'
HasPrivateKeyDev(content) ==
    LET m == MatchKeyValue(content)
    IN  /\ m # NoMatch
        /\ Trim(m) # << >>
        /\ Trim(m) # YOUR_ETH

\* the body of the answer to a read that succeeded; JSON drops note: undefined
GetEnvBody(content) ==
    IF variant = "production"
    THEN IF HasValidKeyProduction(content)
         THEN [configured |-> TRUE, hasPrivateKey |-> TRUE, path |-> CRE_ENV_PATH]
         ELSE [configured |-> FALSE, hasPrivateKey |-> FALSE, path |-> CRE_ENV_PATH,
               note |-> "No private key configured. Some workflows may work without it."]
    ELSE [hasPrivateKey |-> HasPrivateKeyDev(content)]

\* the answer to a read that failed
GetEnvFailure ==
    IF variant = "production"
    THEN Resp("get-env-config", Undefined, "", "io-error", 200,
              [configured |-> FALSE, hasPrivateKey |-> FALSE, error |-> "Could not read .env file",
               note |-> "Configure via Settings if needed for your workflow"])
    ELSE Resp("get-env-config", Undefined, "", "io-error", 500,
              [error |-> "Failed to read configuration", message |-> "io error"])

\* the handler up to await fs.readFile(CRE_ENV_PATH, 'utf-8')
GetEnvRecv(i) ==
    /\ Fresh(i)
    /\ req' = [req EXCEPT ![i] = [Idle EXCEPT !.pc = "get_read", !.route = "get-env-config"]]
    /\ response' = << >>
    /\ UNCHANGED <<variant, fsMode, envFile, workFile, initPc, env0, opens>>

\* the read settles and the handler answers
GetEnvRead(i) ==
    /\ req[i].pc = "get_read"
    /\ IF CanRead
       THEN Finish(i, Resp("get-env-config", Undefined, "", "ok", 200, GetEnvBody(envFile)))
       ELSE Finish(i, GetEnvFailure)
    /\ UNCHANGED <<variant, fsMode, envFile, workFile, initPc, env0, opens>>

-----------------------------------------------------------------------------
(* POST /api/set-env-config *)

\* server.production.ts: `CRE_ETH_PRIVATE_KEY=${cleanKey}\nCRE_TARGET=staging-settings\n`
SetEnvContentProduction(cleanKey) ==
    KEY_ASSIGN \o cleanKey \o NL \o TARGET_ASSIGN \o STAGING \o NL

\* server.ts: replace the first match of /CRE_ETH_PRIVATE_KEY=.*/, or append
SetEnvContentDev(envContent, privateKey) ==
    IF KeyStarStarts(envContent) # {}
    THEN ReplaceKeyLine(envContent, privateKey)
    ELSE envContent \o NL \o KEY_ASSIGN \o privateKey \o NL

SetEnvFailureBody == [error |-> "Failed to save configuration", message |-> "io error"]

\* request o is a set-env-config handler in flight
SetEnvInFlight(o) == req[o].route = "set-env-config"

\* request i starts to wait at pc, about to store val; observer: handlers in
\* flight that store another value are marked as having had a rival, and so is i
SetEnvAdmit(i, key, val, pc, data) ==
    req' = [o \in Requests |->
              IF o = i
              THEN [Idle EXCEPT !.pc = pc, !.route = "set-env-config", !.key = key, !.val = val,
                                !.data = data,
                                !.rival = \E r \in Requests \ {i} :
                                             SetEnvInFlight(r) /\ req[r].val # val]
              ELSE IF SetEnvInFlight(o) /\ req[o].val # val
                   THEN [req[o] EXCEPT !.rival = TRUE]
                   ELSE req[o]]

\* server.production.ts, up to await fs.writeFile(...)
SetEnvRecvProduction(i, key) ==
    /\ variant = "production"
    /\ Fresh(i)
    /\ IF ~Truthy(key)
       THEN Finish(i, Resp("set-env-config", key, "", "validation", 400,
                           [error |-> "Missing privateKey"]))
       ELSE IF key.t # "string"
       THEN \* privateKey.replace is not a function: the catch block answers
            Finish(i, Resp("set-env-config", key, "", "type-error", 500, SetEnvFailureBody))
       ELSE IF ~IsKeyFormat(CleanKey(key.v))
       THEN Finish(i, Resp("set-env-config", key, "", "validation", 400,
                 [error |-> "Invalid private key format. Must be 64 hexadecimal characters."]))
       ELSE /\ SetEnvAdmit(i, key, CleanKey(key.v), "set_open",
                           SetEnvContentProduction(CleanKey(key.v)))
            /\ response' = << >>
    /\ UNCHANGED <<variant, fsMode, envFile, workFile, initPc, env0, opens>>

\* server.ts, up to await fs.readFile(CRE_ENV_PATH, 'utf-8')
SetEnvRecvDev(i, key) ==
    /\ variant = "dev"
    /\ Fresh(i)
    /\ IF ~Truthy(key)
       THEN Finish(i, Resp("set-env-config", key, "", "validation", 400,
                           [error |-> "Private key is required"]))
       ELSE /\ SetEnvAdmit(i, key, key.v, "set_read", << >>)
            /\ response' = << >>
    /\ UNCHANGED <<variant, fsMode, envFile, workFile, initPc, env0, opens>>

\* server.ts: the read settles; the new content is computed
SetEnvRead(i) ==
    /\ req[i].pc = "set_read"
    /\ IF CanRead
       THEN /\ req' = [req EXCEPT ![i].pc = "set_open",
                                  ![i].data = SetEnvContentDev(envFile, req[i].val)]
            /\ response' = << >>
       ELSE Finish(i, Resp("set-env-config", req[i].key, "", "io-error", 500, SetEnvFailureBody))
    /\ UNCHANGED <<variant, fsMode, envFile, workFile, initPc, env0, opens>>

\* fs.writeFile(CRE_ENV_PATH, envContent, 'utf-8'): the open, which creates or truncates
SetEnvOpen(i) ==
    /\ req[i].pc = "set_open"
    /\ IF CanWrite
       THEN /\ envFile' = << >>
            /\ opens' = opens + 1
            /\ req' = [req EXCEPT ![i].pc = "set_write"]
            /\ response' = << >>
       ELSE /\ UNCHANGED <<envFile, opens>>
            /\ Finish(i, Resp("set-env-config", req[i].key, "", "io-error", 500, SetEnvFailureBody))
    /\ UNCHANGED <<variant, fsMode, workFile, initPc, env0>>

SetEnvSuccessBody ==
    [success |-> TRUE,
     message |-> IF variant = "production" THEN "Private key configured successfully"
                                           ELSE "Configuration saved successfully"]

\* fs.writeFile(CRE_ENV_PATH, envContent, 'utf-8'): the write, and the answer
SetEnvWrite(i) ==
    /\ req[i].pc = "set_write"
    /\ envFile' = Overwrite(envFile, req[i].data)
    /\ Finish(i, << [Resp("set-env-config", req[i].key, "", "ok", 200, SetEnvSuccessBody)[1]
                        EXCEPT !.rival = req[i].rival] >>)
    /\ UNCHANGED <<variant, fsMode, workFile, initPc, env0, opens>>

-----------------------------------------------------------------------------
(* The server *)

Next ==
    \/ InitAccess
    \/ InitOpen
    \/ InitWrite
    \/ \E i \in Requests : Health(i)
    \/ \E i \in Requests : Info(i)
    \/ \E i \in Requests : NotFound(i)
    \/ \E i \in Requests, route \in {"write-file", "simulate", "set-env-config"} :
          ErrorHandler(i, route)
    \/ \E i \in Requests, path \in FilePathInputs, content \in ContentInputs :
          WriteFileRecv(i, path, content)
    \/ \E i \in Requests : WriteFileMkdir(i)
    \/ \E i \in Requests : WriteFileWrite(i)
    \/ \E i \in Requests, orchestratorPath \in PathInputs : SimulateRecv(i, orchestratorPath)
    \/ \E i \in Requests, o \in ExecOutcomes : SimulateDone(i, o)
    \/ \E i \in Requests : GetEnvRecv(i)
    \/ \E i \in Requests : GetEnvRead(i)
    \/ \E i \in Requests, key \in KeyInputs : SetEnvRecvProduction(i, key)
    \/ \E i \in Requests, key \in KeyInputs : SetEnvRecvDev(i, key)
    \/ \E i \in Requests : SetEnvRead(i)
    \/ \E i \in Requests : SetEnvOpen(i)
    \/ \E i \in Requests : SetEnvWrite(i)

Spec == Init /\ [][Next]_vars

-----------------------------------------------------------------------------
(* Vocabulary of the claims *)

Sent == response # << >>

\* the cleaning the specification describes: surrounding whitespace and a leading 0x removed
SpecClean(s) == StripHexPrefix(Trim(s))

\* an optional 0x, 64 hexadecimal characters, optional surrounding whitespace
WellFormedKey(key) == key.t = "string" /\ IsKeyFormat(SpecClean(key.v))

\* absent, empty, of a wrong length or with a character that is not hexadecimal
MalformedKey(key) == key.t \in {"undefined", "string"} /\ ~IsKeyFormat(SpecClean(key.v))

HasErrorOrSuccess(body) == "error" \in DOMAIN body \/ "success" \in DOMAIN body

ReportsConfigured(body) == "configured" \in DOMAIN body /\ body.configured

\* the lines of a file: the pieces between line feeds, without the empty last piece
LineStarts(c) == {i \in 1..Len(c) : i = 1 \/ c[i - 1] = "\n"}

EnvLines(c) ==
    IF c = Missing THEN << >>
    ELSE [k \in 1..Cardinality(LineStarts(c)) |->
            LET i == CHOOSE x \in LineStarts(c) :
                        Cardinality({y \in LineStarts(c) : y < x}) = k - 1
            IN  SubSeq(c, i, LineEnd(c, i) - 1)]

IsKeyLine(l) == StartsAt(l, KEY_ASSIGN, 1)

KeyLineIndexes(L) == {k \in 1..Len(L) : IsKeyLine(L[k])}

\* the value of the first line of the form CRE_ETH_PRIVATE_KEY=<value>, or NoMatch
FirstKeyLineValue(c) ==
    LET L == EnvLines(c)
    IN  IF KeyLineIndexes(L) = {} THEN NoMatch
        ELSE LET l == L[SetMin(KeyLineIndexes(L))]
             IN  SubSeq(l, Len(KEY_ASSIGN) + 1, Len(l))

\* the lines with the first key line replaced, or with a key line appended
WithKeyLine(L, value) ==
    IF KeyLineIndexes(L) = {} THEN Append(L, KEY_ASSIGN \o value)
    ELSE [L EXCEPT ![SetMin(KeyLineIndexes(L))] = KEY_ASSIGN \o value]

\* the lines other than the first key line
RestLines(L) ==
    IF KeyLineIndexes(L) = {} THEN L
    ELSE LET k == SetMin(KeyLineIndexes(L))
         IN  SubSeq(L, 1, k - 1) \o SubSeq(L, k + 1, Len(L))

\* configured, as the specification defines it
ConfiguredBySpec(c) ==
    LET v == FirstKeyLineValue(c)
    IN  /\ v # NoMatch
        /\ Trim(v) # << >>
        /\ ~Includes(Trim(v), YOUR_)
        /\ ~Includes(Trim(v), YOUR_ETH)
        /\ ~Includes(Trim(v), PLACEHOLDER)

-----------------------------------------------------------------------------
(* The claims *)

\* C1 (as stated; violated): on the hardened server with a writable directory,
\* a set-env-config whose privateKey is an optional 0x, 64 hexadecimal
\* characters and optional surrounding whitespace is answered 200 with
\* success:true, the file then holds the key without prefix and whitespace,
\* and a get-env-config reading that file reports configured:true.
C1_WellFormedKeyAccepted ==
    Sent =>
      LET r == response[1]
      IN  (/\ variant = "production"
           /\ fsMode = "ok"
           /\ r.route = "set-env-config"
           /\ r.event # "bad-json"
           /\ WellFormedKey(r.key))
          => /\ r.status = 200
             /\ "success" \in DOMAIN r.body
             /\ r.body.success
             /\ MatchKeyValue(envFile) = SpecClean(r.key.v)
             /\ HasValidKeyProduction(envFile)

\* C2 (as stated; violated): with a working file system and a .env file that
\* existed when the process started, a set-env-config
\* whose privateKey is malformed (wrong length, a character that is not
\* hexadecimal, empty or absent) is answered 400, and no step of its handler
\* changes the .env file.
C2_MalformedKeyRejected ==
    [][ /\ \A i \in Requests :
              (SetEnvInFlight(i) /\ req'[i] # req[i] /\ MalformedKey(req[i].key))
              => envFile' = envFile
        /\ (/\ fsMode = "ok"
            /\ env0 # Missing
            /\ response' # << >>
            /\ response'[1].route = "set-env-config"
            /\ response'[1].event # "bad-json"
            /\ MalformedKey(response'[1].key))
           => (response'[1].status = 400 /\ envFile' = envFile) ]_vars

\* C3 (as stated; violated): get-env-config is always answered 200; when the
\* file is missing or unreadable the body holds configured:false and a
\* diagnostic field; the step never changes the file.
C3_GetEnvAlways200 ==
    [][ (response' # << >> /\ response'[1].route = "get-env-config")
        => /\ response'[1].status = 200
           /\ ~CanRead => /\ "configured" \in DOMAIN response'[1].body
                          /\ ~response'[1].body.configured
                          /\ "error" \in DOMAIN response'[1].body
           /\ envFile' = envFile ]_vars

\* C4 (as stated; violated): every simulate request whose body parses is
\* answered 200 with success and output; a run that exits non-zero, times out
\* or fails to launch gives success:false and a non-empty output; success:true
\* is given only to a run that exited with code zero.
C4_SimulateAlways200 ==
    Sent =>
      LET r == response[1]
      IN  (r.route = "simulate" /\ r.event # "bad-json")
          => /\ r.status = 200
             /\ {"success", "output"} \subseteq DOMAIN r.body
             /\ r.event # "exit0" => (~r.body.success /\ r.body.output # << >>)
             /\ r.body.success => r.event = "exit0"

\* C5 (as stated, on the hardened server, which alone reports `configured`;
\* violated): a get-env-config that read the file reports configured:true
\* iff the first line CRE_ETH_PRIVATE_KEY=<value> has a trimmed value that is
\* non-empty and holds none of your_, your-eth-private-key, placeholder.
C5_ConfiguredIffSpec ==
    Sent =>
      LET r == response[1]
      IN  (variant = "production" /\ r.route = "get-env-config" /\ r.event = "ok")
          => (ReportsConfigured(r.body) <=> ConfiguredBySpec(envFile))

\* C6: on the hardened server any two simulate requests whose command has been
\* launched run the same command line in the same directory, whatever
\* orchestratorPath their bodies carried.
C6_CommandIndependentOfBody ==
    \A i, j \in Requests :
        (variant = "production" /\ req[i].pc = "exec" /\ req[j].pc = "exec")
        => req[i].data = req[j].data

\* C6 witness: two launched simulate requests of the hardened server whose
\* bodies carried different orchestratorPath values, one of them not the
\* server's own.
C6_Witness ==
    \E i, j \in Requests :
        /\ variant = "production"
        /\ req[i].pc = "exec" /\ req[j].pc = "exec"
        /\ req[i].opath = "/tmp/elsewhere"
        /\ req[j].opath = ""

\* C7 (as stated; violated): every response holds an error or a success field.
C7_EveryResponseErrorOrSuccess == Sent => HasErrorOrSuccess(response[1].body)

\* C7 (amended): every response of write-file, simulate, set-env-config, the
\* 404 fallback and the error handler holds an error or a success field; a
\* get-env-config response holds one exactly when the file could not be read;
\* the health and info responses hold neither.
C7_ErrorOrSuccessExceptStatus ==
    Sent =>
      LET r == response[1]
      IN  IF r.route \in {"health", "info"} THEN ~HasErrorOrSuccess(r.body)
          ELSE IF r.route = "get-env-config" THEN HasErrorOrSuccess(r.body) <=> ~CanRead
          ELSE HasErrorOrSuccess(r.body)

\* C7 witness: the 404 fallback has answered.
C7_Witness == Sent /\ response[1].route = "404" /\ response[1].status = 404

\* C8 (as stated; violated): a successful set-env-config on an existing file
\* that nothing else has written leaves the lines of the file as they were,
\* with the first key line replaced by the new value, or with one key line
\* appended when there was none.
C8_OnlyKeyLineChanges ==
    Sent =>
      LET r == response[1]
      IN  (/\ r.route = "set-env-config"
           /\ r.status = 200
           /\ opens = 1
           /\ env0 # Missing)
          => EnvLines(envFile) = WithKeyLine(EnvLines(env0), SpecClean(r.key.v))

\* C9 (as stated; violated): a write step of initializeEnvFile that finds the
\* file existing (at its open), or holding content (at its write), leaves the
\* content unchanged.
C9_InitializerNeverOverwrites ==
    [][ /\ (initPc = "open" /\ initPc' # "open" /\ envFile # Missing) => envFile' = envFile
        /\ (initPc = "write" /\ initPc' # "write" /\ envFile # << >>) => envFile' = envFile ]_vars

\* C10 (as stated; violated): when a successful set-env-config that overlapped
\* with another one storing a different key is the last of the two to write
\* (two opens so far, no set-env-config in flight), the authoritative key is
\* its key and the lines other than the first key line are those of the
\* original file.
C10_LastWriterWins ==
    Sent =>
      LET r == response[1]
      IN  (/\ r.route = "set-env-config"
           /\ r.status = 200
           /\ r.rival
           /\ opens = 2
           /\ env0 # Missing
           /\ \A o \in Requests : ~SetEnvInFlight(o))
          => /\ FirstKeyLineValue(envFile) = SpecClean(r.key.v)
             /\ RestLines(EnvLines(envFile)) = RestLines(EnvLines(env0))

=============================================================================
